---- MODULE Spec2Model ----
(***************************************************************************)
(* Model of library/cmsis-dap/usb_descriptors.c: the serial-number         *)
(* derivation and worker loop of dap_main, the string-descriptor           *)
(* synthesizer tud_descriptor_string_cb and the HID report callbacks.      *)
(* Memory arrays are functions indexed from 0, as in the C source; chars   *)
(* and bytes are their numeric values.                                     *)
(***************************************************************************)
EXTENDS Integers, Sequences, FiniteSets, TLC

VARIABLES pc, i, CPU_F, pico, unique_id, _desc_str, TxDataBuffer,
          extLog, taskTick, procKind, last

vars == <<pc, i, CPU_F, pico, unique_id, _desc_str, TxDataBuffer,
          extLog, taskTick, procKind, last>>

(* ------------------------------ bounds -------------------------------- *)

\* scaled-down endpoint buffer size (tusb_config.h sets the real one)
CFG_TUD_HID_EP_BUFSIZE == 2
\* largest out-of-range string index tried, besides 255
MaxIndex == 5
\* table strings of every length 0..MaxShortLen are tried
MaxShortLen == 34
\* table strings of length 256..256+MaxWrap are tried (8-bit chr_count wraps)
MaxWrap == 33

(* --------------------------- program constants ------------------------ *)

TUSB_DESC_STRING == 3
STRID_LANGID == 0
STRID_PRODUCT == 1
STRID_MANUFACTURER == 2
STRID_SERIAL == 3
DescStrLen == 32
UniqueIdSize == 17
BoardIdSize == 8
MaxChr == 31

Min(a, b) == IF a < b THEN a ELSE b

\* a string literal: its characters followed by the terminating NUL
Lit(s) == [k \in 0..Len(s) |-> IF k < Len(s) THEN s[k + 1] ELSE 0]

\* "0000000000000000"
UniqueIdInit == [k \in 0..(UniqueIdSize - 1) |-> IF k < UniqueIdSize - 1 THEN 48 ELSE 0]

\* (const char[]){0x09, 0x04}: two bytes, no terminator
LangIdBytes == [k \in 0..1 |-> IF k = 0 THEN 9 ELSE 4]
\* "CMSIS-DAP"
ProductStr == Lit(<<67, 77, 83, 73, 83, 45, 68, 65, 80>>)
\* "pico-debug"
ManufacturerStr == Lit(<<112, 105, 99, 111, 45, 100, 101, 98, 117, 103>>)

\* the table, with the serial slot pointing at the given buffer
string_desc_arr(serial) ==
  [k \in 0..3 |-> IF k = STRID_LANGID THEN LangIdBytes
                  ELSE IF k = STRID_PRODUCT THEN ProductStr
                  ELSE IF k = STRID_MANUFACTURER THEN ManufacturerStr
                  ELSE serial]

(* ------------------------------ C library ----------------------------- *)

\* strlen: number of chars before the first NUL
strlen(mem) ==
  CHOOSE n \in DOMAIN mem : mem[n] = 0 /\ \A m \in 0..(n - 1) : mem[m] # 0

\* the C string held in mem, as a sequence
CStr(mem) == [k \in 1..strlen(mem) |-> mem[k - 1]]

\* uppercase hex digit of a nibble
HexChar(n) == IF n < 10 THEN 48 + n ELSE 55 + n

RECURSIVE FormatX(_)
\* printf "%X": uppercase hex, no leading zeros
FormatX(v) == IF v < 16 THEN <<HexChar(v)>>
              ELSE FormatX(v \div 16) \o <<HexChar(v % 16)>>

\* snprintf(mem + p, size, "%X", v): at most size-1 chars, then a NUL
snprintf(mem, p, size, v) ==
  LET digits == FormatX(v)
      n == Min(Len(digits), size - 1)
  IN [k \in DOMAIN mem |->
        IF k >= p /\ k < p + n THEN digits[k - p + 1]
        ELSE IF k = p + n THEN 0
        ELSE mem[k]]

RECURSIVE DeriveFrom(_, _, _)
\* the derivation loop of dap_main run from iteration k to the end
DeriveFrom(mem, id, k) ==
  IF k >= BoardIdSize THEN mem
  ELSE DeriveFrom(snprintf(mem, 2 * k, 3, id[k]), id, k + 1)

DeriveAll(id) == DeriveFrom(UniqueIdInit, id, 0)

(* ---------------------- tud_descriptor_string_cb ---------------------- *)

\* char converted to uint16_t (char is unsigned on this target)
CharToU16(c) == c % 65536

LangIdUnitBE(src) == src[0] * 256 + src[1]
\* memcpy of two bytes into one little-endian uint16_t
LangIdUnit(src) == src[0] + 256 * src[1]

InRange(index, arr) == index < Cardinality(DOMAIN arr)

\* chr_count = strlen(str) stored in a uint8_t, then capped
CapChrCount(len) ==
  LET chr_count == len % 256
  IN IF chr_count > MaxChr THEN MaxChr ELSE chr_count

ConvertOff(desc, str, chr_count) ==
  [k \in DOMAIN desc |->
     IF k < chr_count THEN CharToU16(str[k]) ELSE desc[k]]
\* for (i = 0; i < chr_count; i++) _desc_str[1 + i] = str[i];
Convert(desc, str, chr_count) ==
  [k \in DOMAIN desc |->
     IF k >= 1 /\ k - 1 < chr_count THEN CharToU16(str[k - 1]) ELSE desc[k]]

\* (TUSB_DESC_STRING << 8) | (2 * chr_count + 2); the low part is below 256
Header(chr_count) == (TUSB_DESC_STRING * 256 + (2 * chr_count + 2)) % 65536

Finish(desc, chr_count, str) ==
  [ret |-> "_desc_str", desc |-> [desc EXCEPT ![0] = Header(chr_count)], str |-> str]

NotFoundEmpty(desc) ==
  [ret |-> "_desc_str", desc |-> [desc EXCEPT ![0] = Header(0)], str |-> <<>>]
\* return NULL, before anything is written
NotFound(desc) == [ret |-> "NULL", desc |-> desc, str |-> <<>>]

tud_descriptor_string_cb(index, langid, desc, arr) ==
  IF index = 0
  THEN Finish([desc EXCEPT ![1] = LangIdUnit(arr[0])], 1, <<>>)
  ELSE IF ~InRange(index, arr)
  THEN NotFound(desc)
  ELSE LET str == arr[index]
           chr_count == CapChrCount(strlen(str))
       IN Finish(Convert(desc, str, chr_count), chr_count, CStr(str))

(* ----------------------------- HID reports ---------------------------- *)

tud_hid_get_report_cb_fill(report_id, report_type, buffer, reqlen) ==
  [ret |-> reqlen, buffer |-> [k \in DOMAIN buffer |-> 0]]
\* the stub: returns 0 and touches nothing
tud_hid_get_report_cb(report_id, report_type, buffer, reqlen) ==
  [ret |-> 0, buffer |-> buffer]

TU_MIN_pinned(a, b) == a
TU_MIN(a, b) == IF a < b THEN a ELSE b

\* the external command processor: "echo" copies the request into the
\* response buffer, "short" writes a one-byte response and leaves the rest
DAP_ProcessCommand(kind, request, response) ==
  IF kind = "echo" THEN [k \in DOMAIN response |-> request[k]]
  ELSE [response EXCEPT ![0] = (request[0] + 1) % 256]

\* the first n bytes of a buffer, as transmitted
Prefix(mem, n) == [k \in 1..n |-> mem[k - 1]]

ProcCall(request) == [fn |-> "DAP_ProcessCommand", data |-> Prefix(request, CFG_TUD_HID_EP_BUFSIZE), len |-> 0]
ReportCall(buf, len) == [fn |-> "tud_hid_report", data |-> Prefix(buf, len), len |-> len]

tud_hid_set_report_cb_early(kind, rx, bufsize, tx) ==
  LET response_size == TU_MIN(CFG_TUD_HID_EP_BUFSIZE, bufsize)
      tx2 == DAP_ProcessCommand(kind, rx, tx)
  IN [tx |-> tx2, rx |-> rx,
      calls |-> <<ReportCall(tx, response_size), ProcCall(rx)>>]
tud_hid_set_report_cb(kind, rx, bufsize, tx) ==
  LET response_size == TU_MIN(CFG_TUD_HID_EP_BUFSIZE, bufsize)
      tx2 == DAP_ProcessCommand(kind, rx, tx)
  IN [tx |-> tx2, rx |-> rx,
      calls |-> <<ProcCall(rx), ReportCall(tx2, response_size)>>]

(* ------------------------------ inputs -------------------------------- *)

\* hardware IDs the platform may report
HardwareIds ==
  { [k \in 0..7 |-> <<26, 0, 255, 2, 3, 4, 5, 6>>[k + 1]],
    [k \in 0..7 |-> <<230, 97, 88, 56, 131, 92, 154, 47>>[k + 1]],
    [k \in 0..7 |-> <<5, 16, 15, 171, 0, 0, 255, 160>>[k + 1]] }

ClockKhz == {125000}
LangIds == {0, 1033}
StrIndexes == (0..MaxIndex) \cup {255}
ByteSamples == {0, 255}
\* buffers the stack may hand over: constant-filled ones and a ramp
Buffers ==
  {[k \in 0..(CFG_TUD_HID_EP_BUFSIZE - 1) |-> b] : b \in ByteSamples}
    \cup {[k \in 0..(CFG_TUD_HID_EP_BUFSIZE - 1) |-> 90 - k]}
BufSizes == 0..(CFG_TUD_HID_EP_BUFSIZE + 1)
ProcKinds == {"echo", "short"}
ReportIds == {0}
\* HID_REPORT_TYPE_INPUT, HID_REPORT_TYPE_FEATURE
ReportTypes == {1, 3}
ReqLens == {0, CFG_TUD_HID_EP_BUFSIZE}

\* an ASCII string of length len, NUL-terminated
MkStr(len, seed) ==
  [k \in 0..len |-> IF k = len THEN 0 ELSE 33 + ((seed + 7 * k) % 94)]
StrLens == (0..MaxShortLen) \cup {255} \cup {256 + k : k \in 0..MaxWrap}
TestStrings == {MkStr(len, seed) : len \in StrLens, seed \in {0, 1}}

(* ------------------------------ state --------------------------------- *)

NoEvent ==
  [op |-> "none", index |-> 0, langid |-> 0, ret |-> "", retLen |-> 0,
   str |-> <<>>, bufBefore |-> <<>>, bufAfter |-> <<>>,
   rx |-> <<>>, rxAfter |-> <<>>, bufsize |-> 0, calls |-> <<>>]

Init ==
  /\ pc = "uninit"
  /\ i = 0
  /\ CPU_F = 0
  /\ pico = <<>>
  /\ unique_id = UniqueIdInit
  /\ _desc_str = [k \in 0..(DescStrLen - 1) |-> 0]
  /\ TxDataBuffer = [k \in 0..(CFG_TUD_HID_EP_BUFSIZE - 1) |-> 0]
  /\ extLog = <<>>
  /\ taskTick = FALSE
  /\ procKind \in ProcKinds
  /\ last = NoEvent

(* ------------------------------ worker -------------------------------- *)

NextPcSetupFirst(p) ==
  CASE p = "uninit" -> "clock"
    [] p = "clock" -> "dap_setup"
    [] p = "dap_setup" -> "get_id"
    [] p = "get_id" -> "loop"
    [] p = "loop" -> "tusb_init"
    [] p = "tusb_init" -> "running"
    [] OTHER -> "running"
\* statement order of dap_init / dap_main
NextPc(p) ==
  CASE p = "uninit" -> "clock"
    [] p = "clock" -> "get_id"
    [] p = "get_id" -> "loop"
    [] p = "loop" -> "dap_setup"
    [] p = "dap_setup" -> "tusb_init"
    [] p = "tusb_init" -> "running"
    [] OTHER -> "running"

\* dap_init: multicore_launch_core1(dap_main)
DapInit ==
  /\ pc = "uninit"
  /\ pc' = NextPc(pc)
  /\ UNCHANGED <<i, CPU_F, pico, unique_id, _desc_str, TxDataBuffer,
                 extLog, taskTick, procKind, last>>

\* CPU_F = frequency_count_khz(...) * 1000 (fits uint32_t for these clocks)
MeasureClock ==
  /\ pc = "clock"
  /\ \E khz \in ClockKhz : CPU_F' = khz * 1000
  /\ extLog' = Append(extLog, "frequency_count_khz")
  /\ pc' = NextPc(pc)
  /\ UNCHANGED <<i, pico, unique_id, _desc_str, TxDataBuffer,
                 taskTick, procKind, last>>

\* pico_get_unique_board_id(&pico); p = unique_id; i = 0
GetBoardId ==
  /\ pc = "get_id"
  /\ pico' \in HardwareIds
  /\ i' = 0
  /\ extLog' = Append(extLog, "pico_get_unique_board_id")
  /\ pc' = NextPc(pc)
  /\ UNCHANGED <<CPU_F, unique_id, _desc_str, TxDataBuffer,
                 taskTick, procKind, last>>

\* one iteration: snprintf(p, 3, "%X", pico.id[i]); p += 2; i++
LoopStep ==
  /\ pc = "loop"
  /\ i < BoardIdSize
  /\ unique_id' = snprintf(unique_id, 2 * i, 3, pico[i])
  /\ i' = i + 1
  /\ pc' = IF i + 1 < BoardIdSize THEN pc ELSE NextPc(pc)
  /\ UNCHANGED <<CPU_F, pico, _desc_str, TxDataBuffer,
                 extLog, taskTick, procKind, last>>

DapSetup ==
  /\ pc = "dap_setup"
  /\ extLog' = Append(extLog, "DAP_Setup")
  /\ pc' = NextPc(pc)
  /\ UNCHANGED <<i, CPU_F, pico, unique_id, _desc_str, TxDataBuffer,
                 taskTick, procKind, last>>

TusbInit ==
  /\ pc = "tusb_init"
  /\ extLog' = Append(extLog, "tusb_init")
  /\ pc' = NextPc(pc)
  /\ UNCHANGED <<i, CPU_F, pico, unique_id, _desc_str, TxDataBuffer,
                 taskTick, procKind, last>>

(* --------------------- tud_task and its callbacks --------------------- *)

CallbackEnabledEarly == pc # "uninit"
\* the stack calls back only from tud_task, which runs after tusb_init
CallbackEnabled == pc = "running"

\* tud_task() with nothing pending
TudTaskIdle ==
  /\ pc = "running"
  /\ taskTick' = ~taskTick
  /\ last' = NoEvent
  /\ UNCHANGED <<pc, i, CPU_F, pico, unique_id, _desc_str, TxDataBuffer,
                 extLog, procKind>>

\* tud_task() serving GET STRING DESCRIPTOR
StringRequest ==
  /\ CallbackEnabled
  /\ \E index \in StrIndexes, langid \in LangIds :
       LET r == tud_descriptor_string_cb(index, langid, _desc_str,
                                         string_desc_arr(unique_id))
       IN /\ _desc_str' = r.desc
          /\ last' = [NoEvent EXCEPT !.op = "string", !.index = index,
                        !.langid = langid, !.ret = r.ret, !.str = r.str]
  /\ taskTick' = ~taskTick
  /\ UNCHANGED <<pc, i, CPU_F, pico, unique_id, TxDataBuffer, extLog, procKind>>

\* tud_task() serving GET_REPORT
GetReport ==
  /\ CallbackEnabled
  /\ \E report_id \in ReportIds, report_type \in ReportTypes,
        buffer \in Buffers, reqlen \in ReqLens :
       LET r == tud_hid_get_report_cb(report_id, report_type, buffer, reqlen)
       IN last' = [NoEvent EXCEPT !.op = "get_report", !.bufBefore = buffer,
                     !.bufAfter = r.buffer, !.retLen = r.ret, !.bufsize = reqlen]
  /\ taskTick' = ~taskTick
  /\ UNCHANGED <<pc, i, CPU_F, pico, unique_id, _desc_str, TxDataBuffer,
                 extLog, procKind>>

\* tud_task() serving a set-report event
SetReport ==
  /\ CallbackEnabled
  /\ \E rx \in Buffers, bufsize \in BufSizes :
       LET r == tud_hid_set_report_cb(procKind, rx, bufsize, TxDataBuffer)
       IN /\ TxDataBuffer' = r.tx
          /\ last' = [NoEvent EXCEPT !.op = "set_report", !.rx = rx,
                        !.rxAfter = r.rx, !.bufsize = bufsize,
                        !.calls = r.calls]
  /\ taskTick' = ~taskTick
  /\ UNCHANGED <<pc, i, CPU_F, pico, unique_id, _desc_str, extLog, procKind>>

Next ==
  \/ DapInit
  \/ MeasureClock
  \/ GetBoardId
  \/ LoopStep
  \/ DapSetup
  \/ TusbInit
  \/ TudTaskIdle
  \/ StringRequest
  \/ GetReport
  \/ SetReport

Spec == Init /\ [][Next]_vars

\* core 1 runs dap_main without interruption
LiveSpec == Spec /\ WF_vars(Next)

(* --- the synthesizer alone, the serial slot holding any test string --- *)

InitStr ==
  /\ pc = "running"
  /\ i = BoardIdSize
  /\ CPU_F = 0
  /\ pico = <<>>
  /\ unique_id \in TestStrings
  /\ _desc_str = [k \in 0..(DescStrLen - 1) |-> 0]
  /\ TxDataBuffer = [k \in 0..(CFG_TUD_HID_EP_BUFSIZE - 1) |-> 0]
  /\ extLog = <<>>
  /\ taskTick = FALSE
  /\ procKind = "echo"
  /\ last = NoEvent

NextStr == StringRequest

SpecStr == InitStr /\ [][NextStr]_vars

(* ------------------------------ claims -------------------------------- *)

Range(s) == {s[k] : k \in 1..Len(s)}
IsHexChar(c) == (c >= 48 /\ c <= 57) \/ (c >= 65 /\ c <= 70)
\* two-digit uppercase hex of every byte, concatenated in byte order
TwoDigitHex(id) ==
  [k \in 1..(2 * BoardIdSize) |->
     IF k % 2 = 1 THEN HexChar(id[(k - 1) \div 2] \div 16)
     ELSE HexChar(id[(k - 1) \div 2] % 16)]
\* the table as the running program sees it
Table == string_desc_arr(unique_id)
\* the length field and the type of a descriptor header
HdrLen(h) == h % 256
HdrType(h) == h \div 256

\* C1: once the derivation loop has run, the serial string has length 16,
\* holds only 0-9 and A-F, and is the two-digit uppercase hex of each byte
\* of the hardware ID in order.
C1_SerialIsTwoDigitHex ==
  (i = BoardIdSize) =>
     /\ strlen(unique_id) = 16
     /\ \A c \in Range(CStr(unique_id)) : IsHexChar(c)
     /\ CStr(unique_id) = TwoDigitHex(pico)

\* C2: a request for an in-range non-zero index whose string S has length
\* L <= 31 returns the scratch buffer with header (0x03 << 8) | (2L + 2) and
\* units 1..L equal to the chars of S, whatever the buffer held before.
C2_ShortStringDescriptor ==
  (last.op = "string" /\ last.index \in 1..3
     /\ strlen(Table[last.index]) <= MaxChr) =>
     LET S == Table[last.index]
         L == strlen(S)
     IN /\ last.ret = "_desc_str"
        /\ _desc_str[0] = TUSB_DESC_STRING * 256 + (2 * L + 2)
        /\ \A k \in 1..L : _desc_str[k] = S[k - 1]

\* C2 witness: the 9-char product string served into a buffer whose unit 10
\* still holds the last char of the manufacturer string served before
C2_Witness ==
  /\ last.op = "string" /\ last.index = STRID_PRODUCT
  /\ _desc_str[0] = TUSB_DESC_STRING * 256 + 20
  /\ _desc_str[10] = ManufacturerStr[9]

\* C3: a table string longer than 31 chars, of any length, gives a
\* descriptor of exactly 31 chars: length field 64, units 1..31 the first
\* 31 chars, and a non-null result.
C3_LongStringTruncatedTo31 ==
  (last.op = "string" /\ last.index = STRID_SERIAL
     /\ strlen(unique_id) > MaxChr) =>
     /\ last.ret = "_desc_str"
     /\ HdrLen(_desc_str[0]) = 2 * MaxChr + 2
     /\ HdrType(_desc_str[0]) = TUSB_DESC_STRING
     /\ \A k \in 1..MaxChr : _desc_str[k] = unique_id[k - 1]

\* C4: index 0 with any language ID returns a non-null descriptor with the
\* single unit 0x0409, length field 4 and type 0x03.
C4_LangIdDescriptor ==
  (last.op = "string" /\ last.index = 0) =>
     /\ last.ret = "_desc_str"
     /\ _desc_str[1] = 1033
     /\ HdrLen(_desc_str[0]) = 4
     /\ HdrType(_desc_str[0]) = TUSB_DESC_STRING

\* C4 witness: index 0 requested in a language other than 0x0409
C4_Witness == last.op = "string" /\ last.index = 0 /\ last.langid # 1033

\* C5: an index at or beyond the table size gets a null result and the
\* scratch buffer is left as it was.
C5_OutOfRangeIsNull ==
  [][(last'.op = "string" /\ last'.index >= 4) =>
        /\ last'.ret = "NULL"
        /\ _desc_str' = _desc_str]_vars

\* C5 witness: index 255 rejected while the buffer holds a descriptor
C5_Witness ==
  /\ last.op = "string" /\ last.index = 255
  /\ _desc_str[0] # 0 /\ last.ret = "NULL"

\* C6: a set-report event calls the command processor once with Rx
\* unmodified, then issues one report of length min(capacity, bufsize)
\* carrying the processor's output for this input; an echoing processor and
\* bufsize = capacity transmit the input itself.
C6_RelayOnceThenReport ==
  [][(last'.op = "set_report") =>
       LET out == DAP_ProcessCommand(procKind, last'.rx, TxDataBuffer)
           n == Min(CFG_TUD_HID_EP_BUFSIZE, last'.bufsize)
       IN /\ Len(last'.calls) = 2
          /\ last'.calls[1].fn = "DAP_ProcessCommand"
          /\ last'.calls[1].data = Prefix(last'.rx, CFG_TUD_HID_EP_BUFSIZE)
          /\ last'.rxAfter = last'.rx
          /\ last'.calls[2].fn = "tud_hid_report"
          /\ last'.calls[2].len = n
          /\ last'.calls[2].data = Prefix(out, n)
          /\ TxDataBuffer' = out
          /\ (procKind = "echo" /\ last'.bufsize = CFG_TUD_HID_EP_BUFSIZE) =>
                /\ last'.calls[2].len = CFG_TUD_HID_EP_BUFSIZE
                /\ last'.calls[2].data = Prefix(last'.rx, CFG_TUD_HID_EP_BUFSIZE)]_vars

\* C6 witness: a full-size event with a non-zero input, echoed
C6_Witness ==
  /\ last.op = "set_report" /\ procKind = "echo"
  /\ last.bufsize = CFG_TUD_HID_EP_BUFSIZE
  /\ last.rx[0] # last.rx[CFG_TUD_HID_EP_BUFSIZE - 1]
  /\ last.calls[2].data = Prefix(last.rx, CFG_TUD_HID_EP_BUFSIZE)

\* C7 as stated: every set-report event hands tud_hid_report a length
\* greater than zero, whatever bufsize is.
C7_NeverZeroLength ==
  (last.op = "set_report") =>
     \A k \in 1..Len(last.calls) :
        last.calls[k].fn = "tud_hid_report" => last.calls[k].len > 0

\* C7 amended: the length handed to tud_hid_report is min(capacity,
\* bufsize); it is zero exactly when bufsize is zero.
C7_ZeroLengthOnlyForZeroBufsize ==
  (last.op = "set_report") =>
     \A k \in 1..Len(last.calls) :
        last.calls[k].fn = "tud_hid_report" =>
           /\ last.calls[k].len = Min(CFG_TUD_HID_EP_BUFSIZE, last.bufsize)
           /\ (last.calls[k].len > 0 <=> last.bufsize > 0)

\* C7 witness: a set-report event with a short non-empty transfer
C7_Witness ==
  /\ last.op = "set_report" /\ last.bufsize = 1
  /\ last.calls[2].fn = "tud_hid_report" /\ last.calls[2].len = 1

\* C8: a get-report request returns 0 and changes nothing: not the
\* caller's buffer, the string scratch buffer, the serial buffer or the
\* relay's output buffer, and it makes no processor call and sends no report.
C8_GetReportIsStub ==
  [][(last'.op = "get_report") =>
        /\ last'.retLen = 0
        /\ last'.bufAfter = last'.bufBefore
        /\ last'.calls = <<>>
        /\ UNCHANGED <<_desc_str, unique_id, TxDataBuffer, extLog, pc>>]_vars

\* C8 witness: a get-report request with a non-zero length and buffer
C8_Witness ==
  /\ last.op = "get_report" /\ last.bufsize > 0
  /\ last.bufBefore[0] # 0 /\ last.retLen = 0

\* C9: the derivation is complete before tusb_init, no callback runs before
\* tusb_init, a request for the serial index reads the fully derived serial,
\* and the serial buffer is written only by the derivation loop, in steps
\* where no callback runs.
C9_SerialDerivedBeforeUsb ==
  /\ [](/\ ("tusb_init" \in Range(extLog)) =>
              (i = BoardIdSize /\ unique_id = DeriveAll(pico))
        /\ (last.op # "none") => ("tusb_init" \in Range(extLog))
        /\ (last.op = "string" /\ last.index = STRID_SERIAL) =>
              /\ last.str = CStr(DeriveAll(pico))
              /\ last.str # CStr(UniqueIdInit))
  /\ [][(unique_id' # unique_id) =>
           (pc = "loop" /\ last = NoEvent /\ last' = NoEvent)]_vars

\* C9 witness: the serial index served after startup
C9_Witness ==
  /\ last.op = "string" /\ last.index = STRID_SERIAL
  /\ last.ret = "_desc_str" /\ "tusb_init" \in Range(extLog)

InitOrder == <<"frequency_count_khz", "pico_get_unique_board_id", "DAP_Setup", "tusb_init">>
Initializing == {"clock", "get_id", "loop", "dap_setup", "tusb_init"}

\* C10: the worker moves Uninitialized -> Initializing -> Running with the
\* steps in the order clock, serial, DAP_Setup, tusb_init, each done once;
\* Running is never left, tud_task is invoked again and again, and the
\* serial buffer is never modified once Running.
C10_WorkerLifecycle ==
  /\ [][/\ (pc = "uninit") => (pc' \in {"uninit", "clock"})
        /\ (pc \in Initializing) => (pc' \in Initializing \cup {"running"})
        /\ (pc = "running") =>
              (pc' = "running" /\ unique_id' = unique_id /\ extLog' = extLog)
        /\ (pc' = "loop" /\ pc # "loop") =>
              (extLog' = SubSeq(InitOrder, 1, 2))
        /\ (pc' = "running") => (extLog' = InitOrder)]_vars
  /\ []<>(pc = "running" /\ taskTick)
  /\ []<>(pc = "running" /\ ~taskTick)

\* C10 witness: Running, with tud_task already invoked
C10_Witness == pc = "running" /\ taskTick /\ extLog = InitOrder

====
